---- MODULE Spec2Model ----
(***************************************************************************)
(* Model of the tigris-cli import commands: `tigris search import`         *)
(* (package search) and `tigris import` (package cmd), together with the   *)
(* schema inference engine they drive (package schema, modelled from the   *)
(* specification of the engine).                                           *)
(***************************************************************************)
EXTENDS Integers, Sequences, FiniteSets, TLC

(***************************************************************************)
(* Bounds                                                                  *)
(***************************************************************************)
\* number of batches the input iterator delivers in one import session
MaxBatches == 2
\* number of documents in one batch
MaxBatchLen == 2

(***************************************************************************)
(* JSON values.  Every value is a record of the same shape:                *)
(*   k     - "null" | "bool" | "num" | "str" | "arr" | "obj"                *)
(*   a     - a set of strings; num: {"int"} (integral, fits int64),        *)
(*           {"frac"} or {"big"}; str: the patterns the string matches     *)
(*   items - arr: the elements; obj: the members [name, v] in key order    *)
(***************************************************************************)
JNull == [k |-> "null", a |-> {}, items |-> <<>>]
JBool == [k |-> "bool", a |-> {}, items |-> <<>>]
JInt == [k |-> "num", a |-> {"int"}, items |-> <<>>]
JFrac == [k |-> "num", a |-> {"frac"}, items |-> <<>>]
JBig == [k |-> "num", a |-> {"big"}, items |-> <<>>]
JStr(pats) == [k |-> "str", a |-> pats, items |-> <<>>]
JArr(elems) == [k |-> "arr", a |-> {}, items |-> elems]
JObj(members) == [k |-> "obj", a |-> {}, items |-> members]
Member(n, v) == [name |-> n, v |-> v]

(***************************************************************************)
(* FieldType: tagged variant with a nullable flag.                         *)
(*   elem   - Array: <<>> while no element was observed, else <<type>>     *)
(*   fields - Object: ordered mapping [name, type]                         *)
(***************************************************************************)
Leaf(tag, n) == [t |-> tag, nullable |-> n, elem |-> <<>>, fields |-> <<>>]
Conflict == Leaf("Conflict", FALSE)
TField(n, ty) == [name |-> n, type |-> ty]

Names(fs) == {fs[i].name : i \in 1..Len(fs)}
IndexOf(fs, n) == CHOOSE i \in 1..Len(fs) : fs[i].name = n
TypeOf(fs, n) == fs[IndexOf(fs, n)].type

RECURSIVE SelectNotIn(_, _)
SelectNotIn(fs, ns) ==
    IF fs = <<>> THEN <<>>
    ELSE IF Head(fs).name \in ns THEN SelectNotIn(Tail(fs), ns)
    ELSE <<Head(fs)>> \o SelectNotIn(Tail(fs), ns)

\* 4.1 Value Type Classifier: first match wins
Classify(v, det) ==
    IF v.k = "null" THEN Leaf("Null", TRUE)
    ELSE IF v.k = "bool" THEN Leaf("Bool", FALSE)
    ELSE IF v.k = "num" THEN
        IF det.integers /\ "int" \in v.a THEN Leaf("Int64", FALSE)
        ELSE Leaf("Float64", FALSE)
    ELSE IF det.uuids /\ "uuid" \in v.a THEN Leaf("UUID", FALSE)
    ELSE IF det.times /\ "time" \in v.a THEN Leaf("DateTime", FALSE)
    ELSE IF det.bytes /\ "b64" \in v.a THEN Leaf("ByteArray", FALSE)
    ELSE Leaf("String", FALSE)

RECURSIVE MergeTypes(_, _)
RECURSIVE MergeFields(_, _)
RECURSIVE HasConflict(_)

HasConflict(ty) ==
    \/ ty.t = "Conflict"
    \/ \E i \in 1..Len(ty.elem) : HasConflict(ty.elem[i])
    \/ \E i \in 1..Len(ty.fields) : HasConflict(ty.fields[i].type)

Nullable(ty) == [ty EXCEPT !.nullable = TRUE]

\* a merge that marks only the left operand's own fields nullable
MergeFieldsLeftOnly(l, r) ==
    [i \in 1..Len(l) |->
        IF l[i].name \in Names(r)
        THEN TField(l[i].name, MergeTypes(l[i].type, TypeOf(r, l[i].name)))
        ELSE TField(l[i].name, Nullable(l[i].type))]
    \o SelectNotIn(r, Names(l))

\* 4.3 Object merged with Object: field-wise union, left operand's order
\* first, then the right operand's new fields in their order
MergeFields(l, r) ==
    [i \in 1..Len(l) |->
        IF l[i].name \in Names(r)
        THEN TField(l[i].name, MergeTypes(l[i].type, TypeOf(r, l[i].name)))
        ELSE TField(l[i].name, Nullable(l[i].type))]
    \o
    LET new == SelectNotIn(r, Names(l))
    IN [i \in 1..Len(new) |-> TField(new[i].name, Nullable(new[i].type))]

\* 4.3 Field-Type Merger
MergeTypes(x, y) ==
    IF x.t = "Conflict" \/ y.t = "Conflict" THEN Conflict
    ELSE IF x.t = "Null" THEN Nullable(y)
    ELSE IF y.t = "Null" THEN Nullable(x)
    ELSE IF x.t = "Object" /\ y.t = "Object" THEN
        LET m == [t |-> "Object", nullable |-> x.nullable \/ y.nullable,
                  elem |-> <<>>, fields |-> MergeFields(x.fields, y.fields)]
        IN IF HasConflict(m) THEN Conflict ELSE m
    ELSE IF x.t = "Array" /\ y.t = "Array" THEN
        LET e == IF x.elem = <<>> THEN y.elem
                 ELSE IF y.elem = <<>> THEN x.elem
                 ELSE <<MergeTypes(x.elem[1], y.elem[1])>>
            m == [t |-> "Array", nullable |-> x.nullable \/ y.nullable,
                  elem |-> e, fields |-> <<>>]
        IN IF HasConflict(m) THEN Conflict ELSE m
    ELSE IF x.t = y.t THEN [x EXCEPT !.nullable = x.nullable \/ y.nullable]
    ELSE IF {x.t, y.t} = {"Int64", "Float64"}
        THEN Leaf("Float64", x.nullable \/ y.nullable)
    ELSE Conflict

RECURSIVE BuildType(_, _)
RECURSIVE FoldElems(_, _, _)

\* merge the types of the elements of an array into one element type
FoldElems(elems, acc, det) ==
    IF elems = <<>> THEN acc
    ELSE FoldElems(Tail(elems),
                   IF acc = <<>> THEN <<BuildType(Head(elems), det)>>
                   ELSE <<MergeTypes(acc[1], BuildType(Head(elems), det))>>,
                   det)

\* 4.2 Structural Type Builder
BuildType(v, det) ==
    IF v.k = "obj" THEN
        LET m == [t |-> "Object", nullable |-> FALSE, elem |-> <<>>,
                  fields |-> [i \in 1..Len(v.items) |->
                      TField(v.items[i].name, BuildType(v.items[i].v, det))]]
        IN IF HasConflict(m) THEN Conflict ELSE m
    ELSE IF v.k = "arr" THEN
        LET m == [t |-> "Array", nullable |-> FALSE,
                  elem |-> FoldElems(v.items, <<>>, det), fields |-> <<>>]
        IN IF HasConflict(m) THEN Conflict ELSE m
    ELSE Classify(v, det)

(***************************************************************************)
(* Schema: collection name, ordered fields, primary key.                   *)
(***************************************************************************)
SField(n, ty, p, g) == [name |-> n, type |-> ty, pk |-> p, auto |-> g]
EmptySchema == [name |-> "", fields |-> <<>>, primaryKey |-> <<>>]

SeqNames(q) == {q[i] : i \in 1..Len(q)}

RECURSIVE SeqMinus(_, _)
SeqMinus(q, ns) ==
    IF q = <<>> THEN <<>>
    ELSE IF Head(q) \in ns THEN SeqMinus(Tail(q), ns)
    ELSE <<Head(q)>> \o SeqMinus(Tail(q), ns)

ObjectOf(fs) ==
    [t |-> "Object", nullable |-> FALSE, elem |-> <<>>,
     fields |-> [i \in 1..Len(fs) |-> TField(fs[i].name, fs[i].type)]]

Min(x, y) == IF x < y THEN x ELSE y

RECURSIVE FoldDocs(_, _, _, _)
\* 4.4 step 1: the batch-local structure of the first n documents
FoldDocs(docs, n, acc, det) ==
    IF n = 0 \/ docs = <<>> THEN acc
    ELSE FoldDocs(Tail(docs), n - 1,
                  IF acc = <<>> THEN <<BuildType(Head(docs), det)>>
                  ELSE <<MergeTypes(acc[1], BuildType(Head(docs), det))>>,
                  det)

\* 4.4 steps 1-3: merge the first id documents of the batch into the
\* running schema s and annotate; err is the Schema Conflict error
Infer(s, coll, docs, pk, auto, id, det) ==
    LET local == FoldDocs(docs, id, <<>>, det)
        merged == IF local = <<>> THEN ObjectOf(s.fields)
                  ELSE IF s.fields = <<>> THEN local[1]
                  ELSE MergeTypes(ObjectOf(s.fields), local[1])
        flag(n, which) == \E i \in 1..Len(s.fields) :
                              s.fields[i].name = n /\ s.fields[i][which]
    IN IF HasConflict(merged) THEN [err |-> TRUE, sch |-> s]
       ELSE [err |-> FALSE,
             sch |-> [name |-> coll,
                      fields |-> [i \in 1..Len(merged.fields) |->
                          SField(merged.fields[i].name, merged.fields[i].type,
                                 flag(merged.fields[i].name, "pk")
                                     \/ merged.fields[i].name \in SeqNames(pk),
                                 flag(merged.fields[i].name, "auto")
                                     \/ merged.fields[i].name \in SeqNames(auto))],
                      primaryKey |-> s.primaryKey
                                     \o SeqMinus(pk, SeqNames(s.primaryKey))]]

(***************************************************************************)
(* Schema wire format: the serialized bytes are a sequence of tokens.      *)
(***************************************************************************)
WireType(t) ==
    CASE t = "Null" -> <<"null">>
      [] t = "Bool" -> <<"boolean">>
      [] t = "Int64" -> <<"integer", "format", "int64">>
      [] t = "Float64" -> <<"number">>
      [] t = "String" -> <<"string">>
      [] t = "UUID" -> <<"string", "format", "uuid">>
      [] t = "DateTime" -> <<"string", "format", "date-time">>
      [] t = "ByteArray" -> <<"string", "format", "byte">>
      [] t = "Array" -> <<"array">>
      [] t = "Object" -> <<"object">>

RECURSIVE MarshalType(_)
RECURSIVE MarshalProps(_)

MarshalProps(fs) ==
    IF fs = <<>> THEN <<>>
    ELSE <<Head(fs).name>> \o MarshalType(Head(fs).type) \o MarshalProps(Tail(fs))

MarshalType(ty) ==
    <<"{", "type">> \o WireType(ty.t)
    \o (IF ty.nullable THEN <<"nullable">> ELSE <<>>)
    \o (IF ty.t = "Array" /\ ty.elem # <<>>
        THEN <<"items">> \o MarshalType(ty.elem[1]) ELSE <<>>)
    \o (IF ty.t = "Object"
        THEN <<"properties", "{">> \o MarshalProps(ty.fields) \o <<"}">>
        ELSE <<>>)
    \o <<"}">>

RECURSIVE MarshalFields(_)
MarshalFields(fs) ==
    IF fs = <<>> THEN <<>>
    ELSE <<Head(fs).name>> \o MarshalType(Head(fs).type)
         \o (IF Head(fs).auto THEN <<"autoGenerate">> ELSE <<>>)
         \o MarshalFields(Tail(fs))

\* json.Marshal(sch): never the empty byte string
Marshal(s) ==
    <<"{", "title", s.name, "properties", "{">> \o MarshalFields(s.fields)
    \o <<"}", "primary_key", "[">> \o s.primaryKey \o <<"]", "}">>

\* bytes.Equal
BytesEqual(x, y) == x = y

(***************************************************************************)
(* util.CleanupNULLValues: strip null-valued and empty-array members.      *)
(***************************************************************************)
RECURSIVE CleanupMembers(_)
CleanupMembers(ms) ==
    IF ms = <<>> THEN <<>>
    ELSE IF Head(ms).v.k = "null" \/ (Head(ms).v.k = "arr" /\ Head(ms).v.items = <<>>)
        THEN CleanupMembers(Tail(ms))
    ELSE IF Head(ms).v.k = "obj"
        THEN <<Member(Head(ms).name, JObj(CleanupMembers(Head(ms).v.items)))>>
             \o CleanupMembers(Tail(ms))
    ELSE <<Head(ms)>> \o CleanupMembers(Tail(ms))

CleanupNULLValues(doc) == JObj(CleanupMembers(doc.items))

(***************************************************************************)
(* Input universe of the import sessions                                   *)
(***************************************************************************)
DefaultDetect == [bytes |-> FALSE, uuids |-> TRUE, times |-> TRUE, integers |-> TRUE]

DocIntVal == JObj(<<Member("id", JInt), Member("val", JInt)>>)
DocFracVal == JObj(<<Member("id", JInt), Member("val", JFrac)>>)
DocNulls == JObj(<<Member("id", JInt), Member("val", JNull), Member("tags", JArr(<<>>))>>)
Docs == {DocIntVal, DocFracVal, DocNulls}

RECURSIVE SeqsUpTo(_, _)
SeqsUpTo(S, n) ==
    IF n = 0 THEN {<<>>}
    ELSE LET shorter == SeqsUpTo(S, n - 1)
         IN shorter \cup {Append(q, x) : q \in {r \in shorter : Len(r) = n - 1}, x \in S}

Batches == SeqsUpTo(Docs, MaxBatchLen) \ {<<>>}

\* schema of a collection or index that exists before the import; its
\* string field tags conflicts with the array of DocNulls
RemoteSchema ==
    [name |-> "coll",
     fields |-> <<SField("id", Leaf("Int64", FALSE), TRUE, FALSE),
                  SField("tags", Leaf("String", FALSE), FALSE, FALSE)>>,
     primaryKey |-> <<"id">>]
RemoteSchemas == {RemoteSchema}

\* json.Unmarshal(resp.Schema, &sch)
Unmarshal(b) == CHOOSE r \in RemoteSchemas : Marshal(r) = b

\* errors of the storage client: nil, a *driver.Error with a code, or an
\* error of another dynamic type
DriverCodes == {"NOT_FOUND", "INVALID_ARGUMENT", "OTHER"}
Errors == DriverCodes \cup {"NODRIVER"}
Results == {"nil"} \cup Errors
IsDriverError(e) == e \in DriverCodes
\* outcomes of a document submission whose error class the code never
\* inspects: success, a driver error, an error of another type
PlainResults == {"nil", "INVALID_ARGUMENT", "NODRIVER"}
\* outcomes of a remote schema create/update call
PushResults == {"nil", "OTHER"}

VARIABLES
    cmd,            \* which command runs: "search" or "db"
    \* the flags; AppendFlag is the variable Append of package search
    NoCreate, UpdateSchema, AppendFlag, CleanUpNULLs, CSVNoHeader,
    InferenceDepth, PrimaryKey, AutoGenerate, AutoCreate,
    found,          \* search: GetIndex succeeded
    exists,         \* the target existed: GetIndex / DescribeCollection succeeded
    sch,            \* inferred schema accumulated across batches
    prevSchema,     \* search: snapshot bytes
    pc,             \* position of the command
    docs,           \* the batch handed to the callback (cleaned in place)
    orig,           \* the batch as read from the input
    nbatches,       \* batches delivered so far
    result,         \* error returned by the callback / Run
    calls,          \* calls made by the callback for the current batch
    evs,            \* the last two schema evolution calls
    \* the merge of two documents in both orders
    mA, mB,         \* the two documents
    mdet,           \* the detector toggles
    accAB, accBA,   \* accumulator fed A then B, and B then A
    mpc,            \* number of merges done
    \* two import sessions, each a process of its own
    streams,        \* per session: its sch, its prevSchema, batches evolved
    actor           \* the session that took the last step

flags == <<NoCreate, UpdateSchema, AppendFlag, CleanUpNULLs, CSVNoHeader,
           InferenceDepth, PrimaryKey, AutoGenerate, AutoCreate>>
mvars == <<mA, mB, mdet, accAB, accBA, mpc>>
svars == <<streams, actor>>
vars == <<cmd, flags, found, exists, sch, prevSchema, pc, docs, orig, nbatches,
          result, calls, evs, mvars, svars>>

Call(op, d, b, e) == [op |-> op, docs |-> d, b |-> b, err |-> e]
Last2(q) == IF Len(q) > 2 THEN Tail(q) ELSE q

Init ==
    /\ cmd \in {"search", "db"}
    /\ InferenceDepth \in -1..MaxBatchLen
    /\ IF cmd = "search"
       THEN /\ NoCreate \in BOOLEAN
            /\ UpdateSchema \in BOOLEAN
            /\ AppendFlag \in BOOLEAN
            /\ CleanUpNULLs \in BOOLEAN
            /\ CSVNoHeader \in BOOLEAN
            /\ PrimaryKey = <<>>
            /\ AutoGenerate = <<>>
            /\ AutoCreate = FALSE
       ELSE /\ NoCreate = FALSE
            /\ UpdateSchema = FALSE
            /\ AppendFlag = FALSE
            /\ CleanUpNULLs = TRUE
            /\ CSVNoHeader = FALSE
            /\ PrimaryKey \in {<<>>, <<"id">>}
            /\ AutoGenerate \in {<<>>, <<"id">>}
            /\ AutoCreate \in BOOLEAN
    /\ found = FALSE
    /\ exists = FALSE
    /\ sch = EmptySchema
    /\ prevSchema = <<>>
    /\ pc = "start"
    /\ docs = <<>>
    /\ orig = <<>>
    /\ nbatches = 0
    /\ result = "nil"
    /\ calls = <<>>
    /\ evs = <<>>
    /\ mA = <<>> /\ mB = <<>> /\ mdet = DefaultDetect
    /\ accAB = [err |-> FALSE, sch |-> EmptySchema]
    /\ accBA = [err |-> FALSE, sch |-> EmptySchema]
    /\ mpc = 0
    /\ streams = <<>>
    /\ actor = 0

\* the callback or Run returns err to login.Ensure: the command ends
Return(e) == pc' = "done" /\ result' = e
\* an error that is dropped: the callback goes on to the submission
FatalIgnored(e) ==
    pc' = (IF cmd = "search" THEN "create" ELSE "dbretry") /\ result' = "nil"

\* util.Fatal with a non-nil error: the process exits
Fatal(e) == pc' = "fatal" /\ result' = e

InferDepthAll(n) == n

InferDepthCapped(n) == IF InferenceDepth > 0 THEN Min(InferenceDepth, n) ELSE n

\* id := len(docs); if InferenceDepth > 0 { id = int(InferenceDepth) }
InferDepth(n) == IF InferenceDepth > 0 THEN InferenceDepth ELSE n

InferSchFresh(s, d) ==
    Infer(EmptySchema, "coll", d, PrimaryKey, AutoGenerate, InferDepth(Len(d)), DefaultDetect)

\* schema.Infer(&sch, coll, docs, PrimaryKey, AutoGenerate, id)
InferSch(s, d) ==
    Infer(s, "coll", d, PrimaryKey, AutoGenerate, InferDepth(Len(d)), DefaultDetect)

PushFailedNever(e) == FALSE

\* if err = evolveIdxSchema(...); err != nil { return err }
PushFailed(e) == e # "nil"

\* the snapshot after evolveIdxSchema decided to push b
NextPrevSchema(b, prev) == prev

EvolveRec(r, pushed, e) ==
    [docs |-> docs, id |-> InferDepth(Len(docs)), before |-> sch,
     snap |-> prevSchema, after |-> r.sch, pushed |-> pushed, err |-> e]

(***************************************************************************)
(* tigris search import                                                    *)
(***************************************************************************)
\* Run without the --append check
SearchGetIndexNoAppendCheck ==
    /\ cmd = "search" /\ pc = "start"
    /\ \E e \in Results, rs \in RemoteSchemas :
        /\ exists' = (e = "nil")
        /\ IF e = "nil"
           THEN /\ sch' = Unmarshal(Marshal(rs))
                /\ found' = TRUE
                /\ pc' = "input"
                /\ UNCHANGED result
           ELSE IF CSVNoHeader
                THEN Fatal("ErrIndexShouldExist") /\ UNCHANGED <<sch, found>>
           ELSE IF ~IsDriverError(e) \/ (e = "NOT_FOUND" /\ NoCreate)
                THEN Return(e) /\ UNCHANGED <<sch, found>>
           ELSE pc' = "input" /\ UNCHANGED <<sch, found, result>>
    /\ UNCHANGED <<cmd, flags, mvars, svars, prevSchema, docs, orig, nbatches,
                   calls, evs>>

\* Run: GetIndex and the decision to go on
SearchGetIndex ==
    /\ cmd = "search" /\ pc = "start"
    /\ \E e \in Results, rs \in RemoteSchemas :
        /\ exists' = (e = "nil")
        /\ IF e = "nil"
           THEN IF ~AppendFlag
                THEN Fatal("ErrNoAppend") /\ UNCHANGED <<sch, found>>
                ELSE /\ sch' = Unmarshal(Marshal(rs))
                     /\ found' = TRUE
                     /\ pc' = "input"
                     /\ UNCHANGED result
           ELSE IF CSVNoHeader
                THEN Fatal("ErrIndexShouldExist") /\ UNCHANGED <<sch, found>>
           ELSE IF ~IsDriverError(e) \/ (e = "NOT_FOUND" /\ NoCreate)
                THEN Return(e) /\ UNCHANGED <<sch, found>>
           ELSE pc' = "input" /\ UNCHANGED <<sch, found, result>>
    /\ UNCHANGED <<cmd, flags, mvars, svars, prevSchema, docs, orig, nbatches,
                   calls, evs>>

ShouldEvolveNoFound == UpdateSchema \/ ~NoCreate

\* if UpdateSchema || (!found && !NoCreate)
ShouldEvolve == UpdateSchema \/ (~found /\ ~NoCreate)

\* bytes.Equal(b, prevSchema): the schema is reported unchanged
Unchanged(b, prev) == BytesEqual(b, prev)

\* the callback up to the first Create: evolveIdxSchema when enabled
SearchEvolve ==
    /\ cmd = "search" /\ pc = "evolve"
    /\ IF ShouldEvolve
       THEN LET r == InferSch(sch, docs)
                b == Marshal(r.sch)
            IN IF r.err
               THEN /\ Fatal("infer schema")
                    /\ evs' = Last2(Append(evs, EvolveRec(r, FALSE, "infer schema")))
                    /\ calls' = Append(calls, Call("Evolve", docs, <<>>, "infer schema"))
                    /\ UNCHANGED <<sch, prevSchema>>
               ELSE /\ sch' = r.sch
                    /\ IF Unchanged(b, prevSchema)
                       THEN /\ pc' = "create"
                            /\ evs' = Last2(Append(evs, EvolveRec(r, FALSE, "nil")))
                            /\ calls' = Append(calls, Call("Evolve", docs, <<>>, "nil"))
                            /\ UNCHANGED <<prevSchema, result>>
                       ELSE \E e \in PushResults :
                            /\ calls' = calls \o <<Call("Evolve", docs, <<>>, e),
                                                   Call("CreateOrUpdateIndex", <<>>, b, e)>>
                            /\ prevSchema' = NextPrevSchema(b, prevSchema)
                            /\ evs' = Last2(Append(evs, EvolveRec(r, TRUE, e)))
                            /\ IF PushFailed(e)
                               THEN Return(e)
                               ELSE pc' = "create" /\ UNCHANGED result
       ELSE pc' = "create" /\ UNCHANGED <<sch, prevSchema, calls, evs, result>>
    /\ UNCHANGED <<cmd, flags, mvars, svars, exists, found, docs, orig, nbatches>>

\* first submission of the batch
SearchCreate ==
    /\ cmd = "search" /\ pc = "create"
    /\ \E e \in PlainResults :
        /\ calls' = Append(calls, Call("Create", docs, <<>>, e))
        /\ pc' = IF e = "nil" THEN "input" ELSE "retry"
    /\ UNCHANGED <<cmd, flags, mvars, svars, exists, found, sch, prevSchema, docs, orig, nbatches,
                   result, evs>>

RetryDocsAlways(d) == [k \in 1..Len(d) |-> CleanupNULLValues(d[k])]

\* if CleanUpNULLs { docs[k] = util.CleanupNULLValues(docs[k]) }
RetryDocs(d) ==
    IF CleanUpNULLs THEN [k \in 1..Len(d) |-> CleanupNULLValues(d[k])] ELSE d

RetryResultFirst(first, second) == first
\* the error the callback returns after the second submission
RetryResult(first, second) == second

\* cleanup and second submission of the batch
SearchRetry ==
    /\ cmd = "search" /\ pc = "retry"
    /\ docs' = RetryDocs(docs)
    /\ \E e \in PlainResults :
        /\ calls' = Append(calls, Call("Create", docs', <<>>, e))
        /\ IF RetryResult(calls[Len(calls)].err, e) = "nil"
           THEN pc' = "input" /\ UNCHANGED result
           ELSE Return(RetryResult(calls[Len(calls)].err, e))
    /\ UNCHANGED <<cmd, flags, mvars, svars, exists, found, sch, prevSchema, orig, nbatches, evs>>

(***************************************************************************)
(* tigris import (database)                                                *)
(***************************************************************************)
\* Run that leaves sch empty
DbDescribeNoSeed ==
    /\ cmd = "db" /\ pc = "start"
    /\ \E e \in Results :
        exists' = (e = "nil")
    /\ pc' = "input"
    /\ UNCHANGED <<cmd, flags, mvars, svars, found, sch, prevSchema, docs, orig,
                   nbatches, result, calls, evs>>

\* Run: DescribeCollection seeds sch when the collection exists
DbDescribe ==
    /\ cmd = "db" /\ pc = "start"
    /\ \E e \in Results, rs \in RemoteSchemas :
        /\ exists' = (e = "nil")
        /\ sch' = IF e = "nil" THEN Unmarshal(Marshal(rs)) ELSE sch
    /\ pc' = "input"
    /\ UNCHANGED <<cmd, flags, mvars, svars, found, prevSchema, docs, orig, nbatches,
                   result, calls, evs>>

InitialIsFinalOptIn(e) ==
    \/ ~IsDriverError(e)
    \/ (e # "NOT_FOUND" /\ e # "INVALID_ARGUMENT")
    \/ ~AutoCreate

InitialIsFinalNoGate(e) ==
    \/ ~IsDriverError(e)
    \/ (e # "NOT_FOUND" /\ e # "INVALID_ARGUMENT")

\* the first error is final: not a driver error, a code other than
\* NOT_FOUND and InvalidArgument, or NOT_FOUND without --create-collection
InitialIsFinal(e) ==
    \/ ~IsDriverError(e)
    \/ (e # "NOT_FOUND" /\ e # "INVALID_ARGUMENT")
    \/ (e = "NOT_FOUND" /\ ~AutoCreate)

\* a callback that evolves the schema after every first insertion
DbInsertAlwaysEvolve ==
    /\ cmd = "db" /\ pc = "insert"
    /\ \E e \in Results :
        /\ calls' = Append(calls, Call("Insert", docs, <<>>, e))
        /\ IF e # "nil" /\ InitialIsFinal(e) THEN Return(e)
           ELSE pc' = "dbevolve" /\ UNCHANGED result
    /\ UNCHANGED <<cmd, flags, mvars, svars, exists, found, sch, prevSchema, docs,
                   orig, nbatches, evs>>

\* first insertion of the batch and the classification of its error
DbInsert ==
    /\ cmd = "db" /\ pc = "insert"
    /\ \E e \in Results :
        /\ calls' = Append(calls, Call("Insert", docs, <<>>, e))
        /\ IF e = "nil" THEN pc' = "input" /\ UNCHANGED result
           ELSE IF InitialIsFinal(e) THEN Return(e)
           ELSE pc' = "dbevolve" /\ UNCHANGED result
    /\ UNCHANGED <<cmd, flags, mvars, svars, exists, found, sch, prevSchema, docs, orig, nbatches, evs>>

\* evolveSchema: infer, marshal, CreateOrUpdateCollection
DbEvolve ==
    /\ cmd = "db" /\ pc = "dbevolve"
    /\ LET r == InferSch(sch, docs)
           b == Marshal(r.sch)
       IN IF r.err
          THEN /\ Fatal("infer schema")
               /\ evs' = Last2(Append(evs, EvolveRec(r, FALSE, "infer schema")))
               /\ calls' = Append(calls, Call("Evolve", docs, <<>>, "infer schema"))
               /\ UNCHANGED sch
          ELSE /\ sch' = r.sch
               /\ \E e \in PushResults :
                   /\ calls' = calls \o <<Call("Evolve", docs, <<>>, e),
                                          Call("CreateOrUpdateCollection", <<>>, b, e)>>
                   /\ evs' = Last2(Append(evs, EvolveRec(r, TRUE, e)))
                   /\ IF PushFailed(e)
                      THEN Return(e)
                      ELSE pc' = "dbretry" /\ UNCHANGED result
    /\ UNCHANGED <<cmd, flags, mvars, svars, exists, found, prevSchema, docs, orig, nbatches>>

\* retry after schema update
DbRetry ==
    /\ cmd = "db" /\ pc = "dbretry"
    /\ \E e \in PlainResults :
        /\ calls' = Append(calls, Call("Insert", docs, <<>>, e))
        /\ IF RetryResult(calls[1].err, e) = "nil"
           THEN pc' = "input" /\ UNCHANGED result
           ELSE Return(RetryResult(calls[1].err, e))
    /\ UNCHANGED <<cmd, flags, mvars, svars, exists, found, sch, prevSchema, docs, orig, nbatches, evs>>

(***************************************************************************)
(* iterate.Input / iterateInput: hands the batches to the callback in      *)
(* arrival order, stops at the first error or at the end of the input      *)
(***************************************************************************)
NextBatch ==
    /\ pc = "input" /\ nbatches < MaxBatches
    /\ \E d \in Batches :
        /\ docs' = d
        /\ orig' = d
    /\ nbatches' = nbatches + 1
    /\ calls' = <<>>
    /\ pc' = IF cmd = "search" THEN "evolve" ELSE "insert"
    /\ UNCHANGED <<cmd, flags, mvars, svars, exists, found, sch, prevSchema, result, evs>>

EndOfInput ==
    /\ pc = "input"
    /\ pc' = "done"
    /\ UNCHANGED <<cmd, flags, mvars, svars, exists, found, sch, prevSchema, docs, orig, nbatches,
                   result, calls, evs>>

Next ==
    \/ SearchGetIndex
    \/ SearchEvolve
    \/ SearchCreate
    \/ SearchRetry
    \/ DbDescribe
    \/ DbInsert
    \/ DbEvolve
    \/ DbRetry
    \/ NextBatch
    \/ EndOfInput

Spec == Init /\ [][Next]_vars

(***************************************************************************)
(* The merge of two documents into an empty accumulator, in both orders    *)
(***************************************************************************)
MergeValues ==
    {JNull, JBool, JInt, JFrac, JStr({}), JStr({"uuid"}),
     JArr(<<>>), JArr(<<JInt>>), JArr(<<JFrac, JNull>>),
     JObj(<<Member("a", JInt)>>), JObj(<<Member("b", JFrac), Member("a", JNull)>>)}
MergeDocs ==
    {JObj(<<Member("x", v)>>) : v \in MergeValues}
    \cup {JObj(<<Member("y", v), Member("x", JInt)>>) : v \in MergeValues}
MergeDetects == {DefaultDetect, [DefaultDetect EXCEPT !.integers = FALSE],
                 [DefaultDetect EXCEPT !.uuids = FALSE]}

\* one document merged into the accumulator acc
MergeDoc(acc, d, det) ==
    IF acc.err THEN acc ELSE Infer(acc.sch, "coll", <<d>>, <<>>, <<>>, 1, det)

InitMerge ==
    /\ cmd = "merge"
    /\ NoCreate = FALSE /\ UpdateSchema = FALSE /\ AppendFlag = FALSE
    /\ CleanUpNULLs = TRUE /\ CSVNoHeader = FALSE /\ InferenceDepth = 0
    /\ PrimaryKey = <<>> /\ AutoGenerate = <<>> /\ AutoCreate = FALSE
    /\ found = FALSE /\ exists = FALSE /\ sch = EmptySchema /\ prevSchema = <<>>
    /\ streams = <<>> /\ actor = 0
    /\ pc = "merge" /\ docs = <<>> /\ orig = <<>> /\ nbatches = 0
    /\ result = "nil" /\ calls = <<>> /\ evs = <<>>
    /\ mA \in MergeDocs
    /\ mB \in MergeDocs
    /\ mdet \in MergeDetects
    /\ accAB = [err |-> FALSE, sch |-> EmptySchema]
    /\ accBA = [err |-> FALSE, sch |-> EmptySchema]
    /\ mpc = 0

\* A then B
MergeForward ==
    /\ cmd = "merge" /\ mpc \in {0, 1}
    /\ accAB' = MergeDoc(accAB, IF mpc = 0 THEN mA ELSE mB, mdet)
    /\ mpc' = mpc + 1
    /\ UNCHANGED <<cmd, flags, svars, found, exists, sch, prevSchema, pc, docs,
                   orig, nbatches, result, calls, evs, mA, mB, mdet, accBA>>

\* B then A
MergeBackward ==
    /\ cmd = "merge" /\ mpc \in {2, 3}
    /\ accBA' = MergeDoc(accBA, IF mpc = 2 THEN mB ELSE mA, mdet)
    /\ mpc' = mpc + 1
    /\ UNCHANGED <<cmd, flags, svars, found, exists, sch, prevSchema, pc, docs,
                   orig, nbatches, result, calls, evs, mA, mB, mdet, accAB>>

NextMerge ==
    \/ MergeForward
    \/ MergeBackward

SpecMerge == InitMerge /\ [][NextMerge]_vars

(***************************************************************************)
(* Two import sessions for different targets.  A session is one run of    *)
(* the command, a process of its own with its own sch and prevSchema; the  *)
(* steps of the two sessions interleave in any order.                      *)
(***************************************************************************)
Streams == {1, 2}
StreamBatches ==
    {<<DocIntVal>>, <<DocFracVal>>, <<DocNulls>>, <<DocIntVal, DocNulls>>}

InitStreams ==
    /\ cmd \in {"search", "db"}
    /\ InferenceDepth \in 0..MaxBatchLen
    /\ NoCreate = FALSE /\ UpdateSchema = TRUE /\ AppendFlag = TRUE
    /\ CleanUpNULLs = TRUE /\ CSVNoHeader = FALSE
    /\ PrimaryKey = <<>> /\ AutoGenerate = <<>> /\ AutoCreate = TRUE
    /\ found = FALSE /\ exists = FALSE /\ sch = EmptySchema /\ prevSchema = <<>>
    /\ pc = "streams" /\ docs = <<>> /\ orig = <<>> /\ nbatches = 0
    /\ result = "nil" /\ calls = <<>> /\ evs = <<>>
    /\ mA = <<>> /\ mB = <<>> /\ mdet = DefaultDetect
    /\ accAB = [err |-> FALSE, sch |-> EmptySchema]
    /\ accBA = [err |-> FALSE, sch |-> EmptySchema]
    /\ mpc = 0
    /\ streams \in [Streams -> {[seed |-> x, sch |-> x, prevSchema |-> <<>>,
                                  hist |-> <<>>, pc |-> "run"] :
                                 x \in {EmptySchema, RemoteSchema}}]
    /\ actor = 0

\* evolveIdxSchema / evolveSchema run by session s for one batch; W is the
\* set of sessions whose sch and prevSchema the call writes
StreamStep(s, W) ==
    /\ pc = "streams"
    /\ streams[s].pc = "run"
    /\ Len(streams[s].hist) < MaxBatches
    /\ \E d \in StreamBatches, e \in PushResults :
        LET r == InferSch(streams[s].sch, d)
            b == Marshal(r.sch)
            skip == cmd = "search" /\ Unchanged(b, streams[s].prevSchema)
            snap == IF skip THEN streams[s].prevSchema
                    ELSE NextPrevSchema(b, streams[s].prevSchema)
            own == [streams[s] EXCEPT
                       !.hist = Append(@, d),
                       !.pc = IF r.err THEN "fatal"
                              ELSE IF ~skip /\ PushFailed(e) THEN "done"
                              ELSE "run"]
        IN streams' = [t \in Streams |->
                          LET base == IF t = s THEN own ELSE streams[t]
                          IN IF t \in W /\ ~r.err
                             THEN [base EXCEPT !.sch = r.sch, !.prevSchema = snap]
                             ELSE base]
    /\ actor' = s
    /\ UNCHANGED <<cmd, flags, mvars, found, exists, sch, prevSchema, pc, docs,
                   orig, nbatches, result, calls, evs>>

\* a call that writes the accumulators of every session
StreamEvolveShared(s) == StreamStep(s, Streams)

\* sch and prevSchema are variables of the process that runs the session
StreamEvolve(s) == StreamStep(s, {s})

NextStreams == \E s \in Streams : StreamEvolve(s)

SpecStreams == InitStreams /\ [][NextStreams]_vars

TypeOK ==
    /\ pc \in {"start", "input", "evolve", "create", "retry", "insert",
                "dbevolve", "dbretry", "done", "fatal", "merge", "streams"}
    /\ nbatches \in 0..MaxBatches
    /\ Len(calls) <= 4

(***************************************************************************)
(* Properties                                                              *)
(***************************************************************************)
LastEv == evs[Len(evs)]
IsSubmission(c) == c.op \in {"Create", "Insert"}
IsPush(c) == c.op \in {"CreateOrUpdateIndex", "CreateOrUpdateCollection"}
Submissions == SelectSeq(calls, IsSubmission)

\* C1: when Evolve is called twice in succession with the same documents
\* on the same accumulator, the second call reports "unchanged" and issues
\* no remote schema create/update call.
C1_SecondEvolveUnchanged ==
    (/\ Len(evs) = 2
     /\ evs[1].docs = evs[2].docs
     /\ evs[1].err = "nil"
     /\ evs[2].err # "infer schema")
    => ~evs[2].pushed

\* C2: after every Evolve call that does not report "unchanged", the stored
\* snapshot equals the serialized bytes of the running schema produced by
\* that call.
C2_SnapshotIsPushedSchema ==
    (cmd = "search" /\ evs # <<>> /\ LastEv.pushed /\ LastEv.err = "nil")
    => prevSchema = Marshal(sch)

\* C3: a batch is submitted to storage at most twice, the second time only
\* after the first submission failed and as the last call of the batch; when
\* the retry fails its error is the final result and the command ends, when
\* it succeeds no error is returned.
C3_AtMostOneRetry ==
    /\ Len(Submissions) <= 2
    /\ Len(Submissions) = 2 =>
        /\ Submissions[1].err # "nil"
        /\ calls[Len(calls)] = Submissions[2]
        /\ IF Submissions[2].err = "nil"
           THEN pc \in {"input", "done"} /\ result = "nil"
           ELSE pc = "done" /\ result = Submissions[2].err

C3_Witness ==
    /\ Len(Submissions) = 2
    /\ Submissions[2].err = "NODRIVER"
    /\ Submissions[1].err = "INVALID_ARGUMENT"
    /\ pc = "done"

Ops(q) == [i \in 1..Len(q) |-> q[i].op]
\* the caller opted into automatic schema management
OptedIn == IF cmd = "db" THEN AutoCreate ELSE ShouldEvolve

\* C4 as stated: a second submission happens only after a failure of the
\* "not found" or "invalid argument" class with the opt-in, with exactly one
\* Evolve between the two submissions; any other failure is returned at once.
C4_RetryOnlyWhenOptedIn ==
    /\ Len(Submissions) = 2 =>
        /\ Submissions[1].err \in {"NOT_FOUND", "INVALID_ARGUMENT"}
        /\ OptedIn
        /\ \E i \in 1..Len(calls) - 2 :
            /\ IsSubmission(calls[i])
            /\ calls[i + 1].op = "Evolve"
            /\ IsSubmission(calls[Len(calls)])
            /\ \A j \in i + 2..Len(calls) - 1 : IsPush(calls[j])
    /\ (/\ Len(Submissions) >= 1
        /\ pc \in {"input", "done"}
        /\ Submissions[1].err # "nil"
        /\ ~(Submissions[1].err \in {"NOT_FOUND", "INVALID_ARGUMENT"} /\ OptedIn))
       => /\ Len(Submissions) = 1
          /\ IsSubmission(calls[Len(calls)])
          /\ result = Submissions[1].err

\* the failures after which the database import evolves the schema
Retryable(e) == e = "INVALID_ARGUMENT" \/ (e = "NOT_FOUND" /\ AutoCreate)

\* C4 amended: in the database import the first insertion is retried only
\* after a driver error InvalidArgument, or NOT_FOUND with --create-collection,
\* with exactly one evolveSchema between the two insertions and only when
\* its schema push succeeded; any other failure is returned at once with no
\* Evolve and no retry.  In the search import every failed first submission
\* is followed by one retry with no Evolve in between.
C4_RetryPolicy ==
    /\ (cmd = "db" /\ calls # <<>>) =>
        /\ calls[1].op = "Insert"
        /\ calls[1].err = "nil" => Len(calls) = 1 /\ result = "nil"
        /\ (calls[1].err # "nil" /\ ~Retryable(calls[1].err)) =>
            /\ Len(calls) = 1
            /\ pc = "done"
            /\ result = calls[1].err
        /\ Retryable(calls[1].err) =>
            \/ /\ pc = "dbevolve"
               /\ Len(calls) = 1
            \/ /\ pc = "fatal"
               /\ Ops(calls) = <<"Insert", "Evolve">>
            \/ /\ pc \in {"dbretry", "done"}
               /\ Ops(calls) = <<"Insert", "Evolve", "CreateOrUpdateCollection">>
               /\ (pc = "done") <=> (calls[3].err # "nil")
               /\ pc = "done" => result = calls[3].err
            \/ /\ Ops(calls) = <<"Insert", "Evolve", "CreateOrUpdateCollection", "Insert">>
               /\ calls[2].err = "nil"
               /\ calls[3].err = "nil"
    /\ (cmd = "search" /\ Len(Submissions) >= 1) =>
        /\ Submissions[1].err = "nil" => Len(Submissions) = 1
        /\ Submissions[1].err # "nil" =>
            \/ pc = "retry" /\ Len(Submissions) = 1
            \/ /\ Len(Submissions) = 2
               /\ Ops(SubSeq(calls, Len(calls) - 1, Len(calls))) = <<"Create", "Create">>

C4_Witness ==
    /\ cmd = "db" /\ ~AutoCreate
    /\ Len(calls) = 4
    /\ calls[1].err = "INVALID_ARGUMENT"
    /\ calls[4].op = "Insert"

\* C5: a batch whose Evolve fails (merge conflict or failed remote schema
\* push) leaves the accumulator as it was before that batch: the snapshot is
\* unchanged and the running schema has nothing from the failed batch.
C5_FailedEvolveLeavesAccumulator ==
    (evs # <<>> /\ LastEv.err # "nil")
    => /\ sch = LastEv.before
       /\ prevSchema = LastEv.snap

\* C6: the running schema never loses a field: every field present before a
\* step (seeded from the remote schema or inferred) is present after it.
C6_FieldsNeverLost == [][Names(sch.fields) \subseteq Names(sch'.fields)]_vars

C6_Witness ==
    /\ evs # <<>>
    /\ LastEv.err = "nil"
    /\ LastEv.before.fields # <<>>
    /\ Names(LastEv.before.fields) # Names(LastEv.after.fields)
    /\ Names(LastEv.before.fields) \subseteq Names(sch.fields)
    /\ sch = LastEv.after

ValueOf(doc, f) == doc.items[IndexOf(doc.items, f)].v
\* the documents of an Evolve call that the inference depth lets it inspect
Inspected(r) ==
    SubSeq(r.docs, 1, IF InferenceDepth > 0
                      THEN Min(InferenceDepth, Len(r.docs)) ELSE Len(r.docs))

\* C7: with inference depth d and a batch of n > d documents, every field
\* of the schema after the call was there before or occurs in one of the
\* first d documents, and a field's type differs from its type before only
\* when one of the first d documents lacks the field or holds a value of
\* another type.
C7_DepthBound ==
    (/\ evs # <<>>
     /\ InferenceDepth > 0
     /\ Len(LastEv.docs) > InferenceDepth)
    => LET r == LastEv
           head == SubSeq(r.docs, 1, InferenceDepth)
       IN /\ \A f \in Names(r.after.fields) :
              \/ f \in Names(r.before.fields)
              \/ \E i \in 1..Len(head) : f \in Names(head[i].items)
          /\ \A f \in Names(r.before.fields) \cap Names(r.after.fields) :
              \/ TypeOf(r.after.fields, f) = TypeOf(r.before.fields, f)
              \/ \E i \in 1..Len(head) :
                  \/ f \notin Names(head[i].items)
                  \/ BuildType(ValueOf(head[i], f), DefaultDetect)
                         # TypeOf(r.before.fields, f)

C7_Witness ==
    /\ evs # <<>>
    /\ InferenceDepth = 1
    /\ LastEv.docs = <<DocIntVal, DocNulls>>
    /\ LastEv.err = "nil"
    /\ "val" \in Names(LastEv.before.fields)
    /\ TypeOf(LastEv.before.fields, "val") = Leaf("Int64", FALSE)
    /\ TypeOf(LastEv.after.fields, "val") = Leaf("Int64", FALSE)
    /\ "tags" \notin Names(LastEv.after.fields)

RECURSIVE SameUpToOrder(_, _)
\* the same type, nullability, element type and fields, in any field order
SameUpToOrder(x, y) ==
    /\ x.t = y.t
    /\ x.nullable = y.nullable
    /\ Len(x.elem) = Len(y.elem)
    /\ \A i \in 1..Len(x.elem) : SameUpToOrder(x.elem[i], y.elem[i])
    /\ Names(x.fields) = Names(y.fields)
    /\ \A f \in Names(x.fields) :
        SameUpToOrder(TypeOf(x.fields, f), TypeOf(y.fields, f))

C9_MonotonicWidening ==
    (evs # <<>> /\ LastEv.err # "infer schema")
    => LET r == LastEv
           head == Inspected(r)
       IN \A f \in Names(r.before.fields) :
           LET tb == TypeOf(r.before.fields, f)
               ta == TypeOf(r.after.fields, f)
           IN /\ tb.t = "Float64" => ta.t = "Float64"
              /\ tb.nullable => ta.nullable
              /\ \A i \in 1..Len(head) :
                  f \in Names(head[i].items) =>
                      LET v == ValueOf(head[i], f)
                      IN /\ (tb.t \in {"Int64", "Float64"} /\ v = JFrac) =>
                             ta.t = "Float64"
                         /\ (tb.t = "Int64" /\ v = JFrac) => r.pushed
                         /\ (v = JNull /\ Len(head) = 1) => ta = Nullable(tb)

C9_Witness ==
    /\ evs # <<>>
    /\ LastEv.err = "nil"
    /\ LastEv.docs = <<DocFracVal>>
    /\ Names(LastEv.before.fields) = {"id", "val"}
    /\ TypeOf(LastEv.before.fields, "val") = Leaf("Int64", FALSE)
    /\ TypeOf(sch.fields, "val") = Leaf("Float64", FALSE)
    /\ LastEv.pushed

NotStripped(m) == ~(m.v.k = "null" \/ (m.v.k = "arr" /\ m.v.items = <<>>))

C11_NoCreateNeverCreates ==
    (cmd = "search" /\ NoCreate /\ ~exists)
    => \A i \in 1..Len(calls) : calls[i].op # "CreateOrUpdateIndex"

\* C12: the search import into an index that exists, without --append,
\* ends with ErrNoAppend before any effect (no batch read, no call made, the
\* running schema not seeded); documents are submitted to an existing index
\* only with --append.
C12_ExistingIndexNeedsAppend ==
    cmd = "search" =>
        /\ (exists /\ ~AppendFlag) =>
            /\ pc = "fatal"
            /\ result = "ErrNoAppend"
            /\ calls = <<>>
            /\ nbatches = 0
            /\ sch = EmptySchema
            /\ ~found
        /\ (exists /\ Len(Submissions) >= 1) => AppendFlag

C12_Witness ==
    /\ cmd = "search"
    /\ exists /\ ~AppendFlag /\ UpdateSchema
    /\ pc = "fatal"

\* C13: in the database import without --create-collection a first insertion
\* that fails with NOT_FOUND ends the batch with that error: no Evolve, no
\* CreateOrUpdateCollection and no retry follow it.
C13_CreateOnlyWithAutoCreate ==
    (cmd = "db" /\ ~AutoCreate) =>
        /\ (calls # <<>> /\ calls[1].err = "NOT_FOUND") =>
            /\ Len(calls) = 1
            /\ pc = "done"
            /\ result = "NOT_FOUND"
        /\ \A i, j \in 1..Len(calls) :
            (i < j /\ calls[i].err = "NOT_FOUND") => ~IsPush(calls[j])

C13_Witness ==
    /\ cmd = "db" /\ ~AutoCreate
    /\ calls # <<>>
    /\ calls[1].err = "NOT_FOUND"
    /\ pc = "done"

\* C14: in the search import, for an index that existed at the start and
\* without --update-schema no batch evolves or pushes the schema; with
\* --update-schema, or when the index was not there and --no-create-index is
\* off, exactly one Evolve runs for every batch, before its first submission.
C14_UpdateOnlyWithUpdateSchema ==
    cmd = "search" =>
        /\ (exists /\ ~UpdateSchema) =>
            \A i \in 1..Len(calls) : calls[i].op \notin {"Evolve", "CreateOrUpdateIndex"}
        /\ (/\ UpdateSchema \/ (~exists /\ ~NoCreate)
            /\ pc \in {"create", "retry"} \/ calls # <<>>)
           => /\ calls # <<>>
              /\ calls[1].op = "Evolve"
              /\ \A i \in 2..Len(calls) : calls[i].op # "Evolve"

C14_Witness ==
    /\ cmd = "search"
    /\ exists /\ ~UpdateSchema /\ ~NoCreate
    /\ Len(Submissions) = 2
    /\ nbatches = 2

RECURSIVE AloneSch(_, _)
\* the running schema of a session that evolves the batches h on its own
AloneSch(x, h) ==
    IF h = <<>> THEN x
    ELSE LET r == Infer(x, "coll", Head(h), PrimaryKey, AutoGenerate,
                        IF InferenceDepth > 0 THEN InferenceDepth ELSE Len(Head(h)),
                        DefaultDetect)
         IN IF r.err THEN x ELSE AloneSch(r.sch, Tail(h))

Tokens(b) == {b[i] : i \in 1..Len(b)}

\* C16: when the target existed at the start the running schema is the
\* remote schema before the first Evolve, and every schema the session
\* pushes contains the fields of the remote schema; when it did not exist
\* the session starts from the empty schema.
C16_SeededFromRemote ==
    /\ (evs = <<>> /\ pc # "start" /\ result # "ErrNoAppend") =>
        sch = IF exists THEN RemoteSchema ELSE EmptySchema
    /\ Len(evs) = 1 =>
        evs[1].before = IF exists THEN RemoteSchema ELSE EmptySchema
    /\ exists =>
        \A i \in 1..Len(calls) :
            IsPush(calls[i]) => Names(RemoteSchema.fields) \subseteq Tokens(calls[i].b)

C16_Witness ==
    /\ exists
    /\ Len(evs) = 1
    /\ evs[1].pushed
    /\ IsPush(calls[Len(calls)])
    /\ "val" \in Tokens(calls[Len(calls)].b)

\* every member of every document of the call is a field of the schema
AllExamined(r) ==
    \A i \in 1..Len(r.docs) : Names(r.docs[i].items) \subseteq Names(r.after.fields)

\* C17 as stated: the depth handed to schema inference is the number of
\* documents of the batch when --inference-depth is unset or not positive
\* and the flag value otherwise, and it never exceeds the number of documents.
C17_DepthIsFlagOrBatchLen ==
    evs # <<>> =>
        /\ LastEv.id = IF InferenceDepth > 0 THEN InferenceDepth ELSE Len(LastEv.docs)
        /\ LastEv.id <= Len(LastEv.docs)

\* C17 amended: the depth handed to schema inference is the number of
\* documents of the batch when --inference-depth is unset or not positive
\* and the flag value otherwise, also when the flag exceeds the number of
\* documents; when the depth is not below the number of documents every
\* document is examined.
C17_DepthHandedToInfer ==
    evs # <<>> =>
        /\ LastEv.id = IF InferenceDepth > 0 THEN InferenceDepth ELSE Len(LastEv.docs)
        /\ (LastEv.id >= Len(LastEv.docs) /\ LastEv.err # "infer schema") =>
            AllExamined(LastEv)

C17_Witness ==
    /\ evs # <<>>
    /\ InferenceDepth = 2
    /\ Len(LastEv.docs) = 1
    /\ LastEv.id = 2
    /\ LastEv.err = "nil"

C19_FailedPushAborts ==
    \A i \in 1..Len(calls) :
        (IsPush(calls[i]) /\ calls[i].err # "nil") =>
            /\ i = Len(calls)
            /\ pc = "done"
            /\ result = calls[i].err
            /\ Len(Submissions) = IF cmd = "search" THEN 0 ELSE 1

C19_Witness ==
    /\ cmd = "search"
    /\ calls # <<>>
    /\ calls[Len(calls)].op = "CreateOrUpdateIndex"
    /\ calls[Len(calls)].err = "OTHER"
    /\ nbatches = 2

\* C20: in the database import Evolve and CreateOrUpdateCollection occur
\* only right after a failed first insertion, at most once per batch; a
\* batch whose first insertion succeeds makes no other call, and the running
\* schema changes only in that Evolve (or when it is seeded at the start).
C20_DbEvolveOnlyAfterFailedInsert ==
    /\ [](cmd = "db" =>
            /\ \A i \in 1..Len(calls) :
                (calls[i].op = "Evolve" \/ IsPush(calls[i])) =>
                    /\ i \in {2, 3}
                    /\ calls[1].op = "Insert"
                    /\ calls[1].err # "nil"
            /\ Cardinality({i \in 1..Len(calls) : IsPush(calls[i])}) <= 1
            /\ (calls # <<>> /\ calls[1].err = "nil") => Len(calls) = 1)
    /\ [][(cmd = "db" /\ (sch' # sch \/ evs' # evs)) =>
            \/ pc = "start"
            \/ /\ pc = "dbevolve"
               /\ Len(calls) = 1
               /\ calls[1].err # "nil"]_vars

C20_Witness ==
    /\ cmd = "db"
    /\ nbatches = 2
    /\ Len(calls) = 1
    /\ calls[1].err = "nil"
    /\ evs # <<>>
    /\ sch = LastEv.after
    /\ pc = "input"

====
